---- MODULE Spec2Model ----
(***************************************************************************)
(* Candidate selection and feedback loop of the college swipe application. *)
(*                                                                         *)
(* The browser side (discover page: loadRec, SwipeButton; profile page:    *)
(* remove) is translated from the React sources.  The HTTP backend behind  *)
(* /api (judgment store, recommendations endpoint, random endpoint) is not *)
(* part of the sources; its handlers are modelled from the specification   *)
(* and are marked as such in the comments.                                 *)
(***************************************************************************)
EXTENDS Integers, Sequences, FiniteSets, TLC

\* ------------------------------------------------------------------ bounds
CatalogSize == 2     \* number of candidates (unitid 1..CatalogSize)
MaxRankLen == 2      \* longest ranked list the provider returns
MaxCalls == 2        \* loadRec invocations in progress per user
MaxPosts == 2        \* like/dislike requests in flight per user
MaxOps == 3          \* user gestures (page load, click, remove) in a run
MaxScore == 2        \* scores 0..MaxScore are in range
NumTabs == 2         \* browser tabs of one origin (they share localStorage)
MaxLoads == 2        \* loadRec invocations in progress on the slides page
MaxPending == 2      \* like/dislike requests in flight on the slides page
MaxReruns == 2       \* extra runs of the initial-request effects of a page

\* --------------------------------------------------------- program constants
TopK == 1            \* '&top_k=1' of the recommendations request
NumSlides == 4       \* the four slides.push(...) of the discover page
StrictPasses == 2    \* <React.StrictMode> runs the mount effects twice

None == "none"
NoCand == 0         \* no candidate (unitids are positive)
Users == {"u1", "u2"}
Catalog == 1..CatalogSize
Kinds == {"like", "dislike"}
Tables == {"likes", "dislikes"}

VARIABLES
    judgments,   \* store: judgments[u][c] = rows (polarities) kept for (u, c)
    applied,     \* history: polarities of the writes applied to (u, c), in order
    me,          \* me[u]: /api/me has answered, me.user_id is known
    uni,         \* uni[u]: candidate displayed on the discover page, or NoCand
    error,       \* error[u]: the discover page shows the error view
    loading,     \* loading[u][kind]: 'loading' of the mounted SwipeButton
    calls,       \* calls[u]: loadRec invocations in progress, oldest first
    result,      \* history: how the loadRec of u that completed last ended
    posts,       \* posts[u]: like/dislike requests whose onClick is running
    ops,         \* number of user gestures so far
    removed      \* history: removed[u][c] = deletions of (u, c) by the profile page

vars == <<judgments, applied, me, uni, error, loading, calls, result, posts, ops,
          removed>>

\* the Ranking Adapter taken alone: a provider response and what rank() makes
\* of it
VARIABLES
    response,    \* the (candidate id, score) pairs the Ranking Provider sent
    ranking      \* the RankingOutcome of the adapter, kind None before the call

rankVars == <<response, ranking>>

\* the router and AuthGuard
VARIABLES
    token,            \* localStorage holds a 'token'
    loc,              \* loc[t]: pathname of tab t
    isAuthenticated   \* isAuthenticated[t]: state of the AuthGuard mounted in
                      \* tab t ("null", "true"), "unmounted" if there is none

authVars == <<token, loc, isAuthenticated>>

\* the slides of the discover page, one page taken alone
VARIABLES
    slideIndex,  \* useState(0) of UniversityProfile, the 'index' prop of Slides
    keyIndex,    \* the 'index' the keydown handler of the mounted Slides closes
                 \* over, NoIndex while no Slides is mounted
    shown,       \* unitid of 'uni', NoCand while it is null
    failed,      \* 'error' is set: the error view replaces the slides
    touchX,      \* a touch has started on the slides (touchX is not null)
    loads,       \* number of loadRec invocations in progress
    pending,     \* number of like/dislike requests in flight
    seenEnd,     \* history: the index has been at the last slide since the
                 \* displayed candidate was loaded
    gesture,     \* history: the last thing that set the slide index
    before       \* history: the slide index before it

slideVars == <<slideIndex, keyIndex, shown, failed, touchX, loads, pending,
               seenEnd, gesture, before>>

\* the initial request of the discover page, one mount taken alone
VARIABLES
    meId,        \* me?.user_id of the page, None while undefined
    lastUidRef,  \* lastUidRef.current
    hasFetched,  \* hasFetched.current of the page that loads at random
    meRequests,  \* users whose GET /api/me is in flight, oldest first
    passes,      \* times the mount effects (deps []) have run
    randomPasses, \* the same for the page that loads at random
    reruns,      \* extra runs of the guarded effects so far
    issued,      \* history: issued[u] = initial loadRec(u) calls made
    randomIssued \* history: initial loadRandom() calls made

mountVars == <<meId, lastUidRef, hasFetched, meRequests, passes, randomPasses,
               reruns, issued, randomIssued>>

\* what the actions of the discover and profile pages leave alone
\* the sign-up wizard: SignUp's step, form, error and loading state, the
\* sign-up request in flight, and whether the page navigated to /profile
VARIABLES
    step,
    form,
    signupError,
    signupLoading,
    request,
    navigated

wizardVars == <<step, form, signupError, signupLoading, request, navigated>>

aux == <<rankVars, authVars, slideVars, mountVars, wizardVars>>

\* ------------------------------------------------------------ sequences
RemoveAt(s, i) == SubSeq(s, 1, i - 1) \o SubSeq(s, i + 1, Len(s))

RECURSIVE Filter(_, _)
\* the ranked sequence without the ids of ex, order preserved
Filter(seq, ex) ==
    IF seq = <<>> THEN <<>>
    ELSE IF Head(seq) \in ex THEN Filter(Tail(seq), ex)
         ELSE <<Head(seq)>> \o Filter(Tail(seq), ex)

\* the first k entries of seq
Take(seq, k) == SubSeq(seq, 1, IF Len(seq) < k THEN Len(seq) ELSE k)

\* sequences of distinct catalog ids, 1..MaxRankLen long
RankLists ==
    {s \in UNION {[1..n -> Catalog] : n \in 1..MaxRankLen} :
        \A i, j \in DOMAIN s : i # j => s[i] # s[j]}

\* ----------------------------------------- Ranking Adapter (from the spec)
Scores == 0..MaxScore

\* scores as they can arrive: in range, malformed (-1), out of range
RawScores == Scores \cup {-1, MaxScore + 1}

\* provider responses: up to MaxRankLen (candidate id, score) pairs, ids distinct
ProviderResponses ==
    {s \in UNION {[1..n -> [id : Catalog, score : RawScores]] : n \in 0..MaxRankLen} :
        \A i, j \in DOMAIN s : i # j => s[i].id # s[j].id}

BeforeByScore(a, b) == a.score >= b.score

\* a precedes b: descending score, ties broken by candidate id ascending
Before(a, b) == a.score > b.score \/ (a.score = b.score /\ a.id < b.id)

RECURSIVE Insert(_, _)
Insert(e, seq) ==
    IF seq = <<>> THEN <<e>>
    ELSE IF Before(e, Head(seq)) THEN <<e>> \o seq
         ELSE <<Head(seq)>> \o Insert(e, Tail(seq))

RECURSIVE SortRanked(_)
SortRanked(seq) ==
    IF seq = <<>> THEN <<>> ELSE Insert(Head(seq), SortRanked(Tail(seq)))

\* the candidate ids of a sequence of pairs, in order
Ids(seq) == [k \in DOMAIN seq |-> seq[k].id]

NoRanking == [kind |-> None, seq |-> <<>>]

\* rank(userId) on a provider response that arrived: a malformed or
\* out-of-range score makes the outcome Unavailable, no pair makes it Empty,
\* otherwise Ranked with the pairs put in order
rank(resp) ==
    IF \E k \in DOMAIN resp : resp[k].score \notin Scores
    THEN [kind |-> "Unavailable", seq |-> <<>>]
    ELSE IF resp = <<>> THEN [kind |-> "Empty", seq |-> <<>>]
         ELSE [kind |-> "Ranked", seq |-> SortRanked(resp)]

\* --------------------------------------------------- store (from the spec)
ExcludedSetLiked(u) == {c \in Catalog : judgments[u][c] = <<"like">>}

\* Exclusion Set: candidate ids with any judgment of the user
ExcludedSet(u) == {c \in Catalog : judgments[u][c] # <<>>}

UpsertInsertOnly(rows, p) == Append(rows, p)

UpsertKeepFirst(rows, p) == IF rows = <<>> THEN <<p>> ELSE rows

\* upsert keyed by (user id, candidate id): a matched row has its polarity
\* overwritten, an unmatched key gets one new row
Upsert(rows, p) ==
    IF rows = <<>> THEN <<p>> ELSE [i \in DOMAIN rows |-> p]

DeleteRowsKeep(rows, table) == rows

\* DELETE on one table: the rows of that polarity go
DeleteRows(rows, table) ==
    LET pol == IF table = "likes" THEN "like" ELSE "dislike"
    IN  IF rows # <<>> /\ \A i \in DOMAIN rows : rows[i] = pol THEN <<>>
        ELSE rows

\* Fallback Sampler: any catalog id outside ex
SampleExcluding(ex) == Catalog \ ex

\* ------------------------------------------------------- client helpers
EndpointAlwaysLikes(kind) == "likes"

\* SwipeButton: `/api/${kind === 'like' ? 'likes' : 'dislikes'}`
Endpoint(kind) == IF kind = "like" THEN "likes" ELSE "dislikes"

\* polarity stored by the handler of an endpoint
PolarityOf(table) == IF table = "likes" THEN "like" ELSE "dislike"

RequestUserFirst(u) == "u1"

\* loadRec: '?user_id=' + encodeURIComponent(userId), the user whose
\* recommendations the request of u's page asks for
RequestUser(u) == u

PickedNever(items) == NoCand

\* loadRec: data?.items?.[0]
Picked(items) == IF items = <<>> THEN NoCand ELSE items[1]

\* the random request of loadRec, fetch('/api/universities/random'), names no
\* user and carries no token: the handler is given no exclusions for u
RandomExclusions(u) == {}

AwaitedNever(p) == TRUE

\* SwipeButton.onClick: 'await fetch(...)' lets the code after it run only
\* once the request has settled
Awaited(p) == p.st # "sent"

\* a fresh loadRec invocation, about to request the recommendations
NewCall(trig) ==
    [pc |-> "rec", trig |-> trig, outcome |-> None, ranked |-> <<>>,
     ex |-> {}, resp |-> None, items |-> <<>>, exSel |-> {}, late |-> FALSE]

\* call i of the calls cs, kept in the order they were issued, has run to its
\* end: it leaves cs, and the calls issued before it that are still in flight
\* are from now on late (a call issued after them has completed)
Complete(cs, i) ==
    RemoveAt([k \in DOMAIN cs |->
                 IF k < i THEN [cs[k] EXCEPT !.late = TRUE] ELSE cs[k]], i)

\* the provider responses with a malformed or out-of-range score
BadScoreResponses ==
    {p \in ProviderResponses : \E k \in DOMAIN p : p[k].score \notin Scores}

\* what the ranking call can end as: kind is the outcome of the Ranking
\* Adapter, resp is what fetch + r.json() give the browser; the last line is
\* the adapter's outcome for the responses with a bad score, which the handler
\* answers itself
RankOutcomes ==
    {[kind |-> "Ranked", seq |-> r, resp |-> "json"] : r \in RankLists}
    \cup {[kind |-> "Empty", seq |-> <<>>, resp |-> "json"]}
    \cup {[kind |-> "Unavailable", seq |-> <<>>, resp |-> h] :
            h \in {"json", "neterr", "malformed"}}
    \cup {[kind |-> "LedgerFail", seq |-> <<>>, resp |-> "json"]}
    \cup {[kind |-> rank(p).kind, seq |-> Ids(rank(p).seq), resp |-> "json"] :
            p \in BadScoreResponses}

\* what the random request can end as
RandomOutcomes(ex) ==
    {[resp |-> "json", items |-> <<c>>] : c \in SampleExcluding(ex)}
    \cup {[resp |-> h, items |-> <<>>] : h \in {"errobj", "neterr", "malformed"}}

PageInit ==
    /\ judgments = [u \in Users |-> [c \in Catalog |-> <<>>]]
    /\ applied = [u \in Users |-> [c \in Catalog |-> <<>>]]
    /\ me = [u \in Users |-> FALSE]
    /\ uni = [u \in Users |-> NoCand]
    /\ error = [u \in Users |-> FALSE]
    /\ loading = [u \in Users |-> [k \in Kinds |-> FALSE]]
    /\ calls = [u \in Users |-> <<>>]
    /\ result = [u \in Users |-> None]
    /\ posts = [u \in Users |-> <<>>]
    /\ ops = 0
    /\ removed = [u \in Users |-> [c \in Catalog |-> 0]]

\* no adapter call is under way
RankIdle == response = <<>> /\ ranking = NoRanking

\* main.tsx: the paths of the router's children
RoutedPaths == {"/", "/signup", "/profile", "/account", "/search"}

\* main.tsx: the routes whose element is <AuthGuard>...</AuthGuard>
Wrapped == {"/profile", "/account", "/search"}

\* paths a tab can be sent to: the routes, and '/analysis' of the Topbar link
\* and the analysis guide
Paths == RoutedPaths \cup {"/analysis"}

Tabs == 1..NumTabs

\* every tab at the sign-in page, nobody signed in
AuthInit ==
    /\ token = FALSE
    /\ loc = [t \in Tabs |-> "/"]
    /\ isAuthenticated = [t \in Tabs |-> "unmounted"]

NoIndex == 0 - 1
Last == NumSlides - 1

\* the discover page of a signed-in user right after the lastUidRef effect:
\* nothing displayed yet, the first loadRec is running
SlidesInit ==
    /\ slideIndex = 0
    /\ keyIndex = NoIndex
    /\ shown = NoCand
    /\ failed = FALSE
    /\ touchX = FALSE
    /\ loads = 1
    /\ pending = 0
    /\ seenEnd = FALSE
    /\ gesture = None
    /\ before = 0

\* a discover page has rendered for the first time, no effect has run yet
MountInit ==
    /\ meId = None
    /\ lastUidRef = None
    /\ hasFetched = FALSE
    /\ meRequests = <<>>
    /\ passes = 0
    /\ randomPasses = 0
    /\ reruns = 0
    /\ issued = [u \in Users |-> 0]
    /\ randomIssued = 0

\* SignUp's useState initial values
Digits == <<"0", "1", "2", "3", "4", "5", "6", "7", "8", "9">>

Blank == " "

Null == [null |-> TRUE, value |-> 0]

NoRequest ==
    [sent |-> FALSE, email |-> <<>>, password |-> <<>>, sat_erw |-> Null,
     sat_math |-> Null, act_composite |-> Null]

EmptyForm ==
    [email |-> <<>>, password |-> <<>>, satErw |-> <<>>, satMath |-> <<>>,
     act |-> <<>>]

WizardInit ==
    /\ step = 0
    /\ form = EmptyForm
    /\ signupError = None
    /\ signupLoading = FALSE
    /\ request = NoRequest
    /\ navigated = FALSE

Init ==
    PageInit /\ RankIdle /\ AuthInit /\ SlidesInit /\ MountInit /\ WizardInit

\* /api/me answers: the lastUidRef effect issues the first loadRec, whose
\* first statement is setError(null)
MeLoaded(u) ==
    /\ ~me[u]
    /\ ops < MaxOps
    /\ Len(calls[u]) < MaxCalls
    /\ me' = [me EXCEPT ![u] = TRUE]
    /\ error' = [error EXCEPT ![u] = FALSE]
    /\ calls' = [calls EXCEPT ![u] = Append(@, NewCall(NoCand))]
    /\ ops' = ops + 1
    /\ UNCHANGED <<judgments, applied, uni, loading, posts, result, removed, aux>>

\* GET /api/universities/recommendations?user_id=u&top_k=1 is answered:
\* ledger read, ranking call, filter by the exclusion set, first top_k
ServeRecommendations(u, i) ==
    /\ i \in DOMAIN calls[u]
    /\ calls[u][i].pc = "rec"
    /\ \E out \in RankOutcomes :
         LET ex == IF out.kind = "LedgerFail" THEN {}
                   ELSE ExcludedSet(RequestUser(u))
         IN  calls' = [calls EXCEPT ![u][i] =
                 [@ EXCEPT !.pc = "recResp", !.outcome = out.kind,
                           !.ranked = out.seq, !.ex = ex, !.exSel = ex,
                           !.resp = out.resp,
                           !.items = IF out.kind = "Ranked"
                                     THEN Take(Filter(out.seq, ex), TopK)
                                     ELSE <<>>]]
    /\ UNCHANGED <<judgments, applied, me, uni, error, loading, posts, result, ops,
                   removed, aux>>

\* the buttons of the discover page are unmounted (slide index back to 0, or
\* error view): their 'loading' state is gone and running onClick handlers
\* no longer reach a mounted button
Unmount(u) ==
    /\ loading' = [loading EXCEPT ![u] = [k \in Kinds |-> FALSE]]
    /\ posts' = [posts EXCEPT ![u] = [j \in DOMAIN @ |-> [@[j] EXCEPT !.live = FALSE]]]

ShowRecording(u, i, picked) ==
    /\ uni' = [uni EXCEPT ![u] = picked]
    /\ Unmount(u)
    /\ calls' = [calls EXCEPT ![u] = Complete(@, i)]
    /\ result' = [result EXCEPT ![u] = "Candidate"]
    /\ judgments' = [judgments EXCEPT ![u][picked] = <<"like">>]
    /\ UNCHANGED <<applied, me, error, ops, removed, aux>>

\* loadRec: setUni(picked); setSlideIndex(0)
Show(u, i, picked) ==
    /\ uni' = [uni EXCEPT ![u] = picked]
    /\ Unmount(u)
    /\ calls' = [calls EXCEPT ![u] = Complete(@, i)]
    /\ result' = [result EXCEPT ![u] = "Candidate"]
    /\ UNCHANGED <<judgments, applied, me, error, ops, removed, aux>>

\* loadRec: catch (e) { setError(e.message) }
Fail(u, i) ==
    /\ error' = [error EXCEPT ![u] = TRUE]
    /\ Unmount(u)
    /\ calls' = [calls EXCEPT ![u] = Complete(@, i)]
    /\ result' = [result EXCEPT ![u] = "SelectionFailed"]
    /\ UNCHANGED <<judgments, applied, me, uni, ops, removed, aux>>

RecResponseNoFallback(u, i) ==
    /\ i \in DOMAIN calls[u]
    /\ calls[u][i].pc = "recResp"
    /\ LET c == calls[u][i]
       IN  IF c.resp \in {"neterr", "malformed"} \/ Picked(c.items) = NoCand
           THEN Fail(u, i)
           ELSE Show(u, i, Picked(c.items))

\* loadRec resumes after the recommendations request
RecResponse(u, i) ==
    /\ i \in DOMAIN calls[u]
    /\ calls[u][i].pc = "recResp"
    /\ LET c == calls[u][i]
       IN  IF c.resp \in {"neterr", "malformed"}
           THEN Fail(u, i)
           ELSE IF Picked(c.items) # NoCand
                THEN Show(u, i, Picked(c.items))
                ELSE /\ calls' = [calls EXCEPT ![u][i].pc = "rand"]
                     /\ UNCHANGED <<judgments, applied, me, uni, error,
                                    loading, posts, result, ops, removed, aux>>

\* GET /api/universities/random is answered
ServeRandom(u, i) ==
    /\ i \in DOMAIN calls[u]
    /\ calls[u][i].pc = "rand"
    /\ \E out \in RandomOutcomes(RandomExclusions(u)) :
         calls' = [calls EXCEPT ![u][i] =
             [@ EXCEPT !.pc = "randResp", !.resp = out.resp,
                       !.items = out.items, !.exSel = ExcludedSet(u)]]
    /\ UNCHANGED <<judgments, applied, me, uni, error, loading, posts, result, ops,
                   removed, aux>>

\* loadRec resumes after the random request
RandResponse(u, i) ==
    /\ i \in DOMAIN calls[u]
    /\ calls[u][i].pc = "randResp"
    /\ LET c == calls[u][i]
       IN  IF c.resp \in {"neterr", "malformed", "errobj"}
           THEN Fail(u, i)
           ELSE Show(u, i, c.items[1])

\* SwipeButton.onClick up to the fetch: setLoading(true), POST sent
SwipeClick(u, kind) ==
    /\ me[u]
    /\ uni[u] # NoCand
    /\ ~error[u]
    /\ ~loading[u][kind]
    /\ ops < MaxOps
    /\ Len(posts[u]) < MaxPosts
    /\ loading' = [loading EXCEPT ![u][kind] = TRUE]
    /\ posts' = [posts EXCEPT ![u] =
           Append(@, [kind |-> kind, unitid |-> uni[u], table |-> Endpoint(kind),
                      st |-> "sent", live |-> TRUE])]
    /\ ops' = ops + 1
    /\ UNCHANGED <<judgments, applied, me, uni, error, calls, result, removed, aux>>

\* POST /api/likes or /api/dislikes is handled: the judgment is upserted and
\* then acknowledged ("ok"), or the write fails ("err"), or the request or
\* its answer is lost on the network ("neterr")
ServePost(u, j) ==
    /\ j \in DOMAIN posts[u]
    /\ posts[u][j].st = "sent"
    /\ LET p == posts[u][j]
       IN  \E r \in {"ok", "err", "neterr", "lost"} :
             /\ posts' = [posts EXCEPT ![u][j].st =
                              IF r = "lost" THEN "neterr" ELSE r]
             /\ IF r \in {"ok", "lost"}
                THEN /\ judgments' = [judgments EXCEPT ![u][p.unitid] =
                                          Upsert(@, PolarityOf(p.table))]
                     /\ applied' = [applied EXCEPT ![u][p.unitid] = Append(@, p.kind)]
                ELSE UNCHANGED <<judgments, applied>>
    /\ UNCHANGED <<me, uni, error, loading, calls, result, ops, removed, aux>>

\* SwipeButton.onClick after the fetch: onDone() = loadRec(me.user_id) when
\* the fetch resolved (whatever the status), then finally setLoading(false)
SwipeSettle(u, j) ==
    /\ j \in DOMAIN posts[u]
    /\ Awaited(posts[u][j])
    /\ LET p == posts[u][j]
       IN  /\ IF p.st = "neterr"
              THEN UNCHANGED <<calls, error>>
              ELSE /\ Len(calls[u]) < MaxCalls
                   /\ calls' = [calls EXCEPT ![u] = Append(@,
                          NewCall(IF p.st \in {"err", "stale"} THEN NoCand
                                  ELSE p.unitid))]
                   /\ error' = [error EXCEPT ![u] = FALSE]
           /\ loading' = IF p.live THEN [loading EXCEPT ![u][p.kind] = FALSE]
                         ELSE loading
           /\ posts' = [posts EXCEPT ![u] = RemoveAt(@, j)]
    /\ UNCHANGED <<judgments, applied, me, uni, result, ops, removed, aux>>

\* ProfilePage.remove(table, unitid) on a row of the page's list:
\* DELETE /api/<table> {unitid} is sent and handled
Remove(u, table, c) ==
    /\ me[u]
    /\ ops < MaxOps
    /\ \E k \in DOMAIN judgments[u][c] : judgments[u][c][k] = PolarityOf(table)
    /\ judgments' = [judgments EXCEPT ![u][c] = DeleteRows(@, table)]
    /\ applied' = [applied EXCEPT ![u][c] = <<>>]
    /\ calls' = [calls EXCEPT ![u] = [i \in DOMAIN @ |->
           IF @[i].trig = c THEN [@[i] EXCEPT !.trig = NoCand] ELSE @[i]]]
    /\ posts' = [posts EXCEPT ![u] = [j \in DOMAIN @ |->
           IF @[j].unitid = c /\ @[j].st = "ok"
           THEN [@[j] EXCEPT !.st = "stale"] ELSE @[j]]]
    /\ removed' = [removed EXCEPT ![u][c] = @ + 1]
    /\ ops' = ops + 1
    /\ UNCHANGED <<me, uni, error, loading, result, aux>>

Next ==
    \/ \E u \in Users : MeLoaded(u)
    \/ \E u \in Users, i \in 1..MaxCalls : ServeRecommendations(u, i)
    \/ \E u \in Users, i \in 1..MaxCalls : RecResponse(u, i)
    \/ \E u \in Users, i \in 1..MaxCalls : ServeRandom(u, i)
    \/ \E u \in Users, i \in 1..MaxCalls : RandResponse(u, i)
    \/ \E u \in Users, k \in Kinds : SwipeClick(u, k)
    \/ \E u \in Users, j \in 1..MaxPosts : ServePost(u, j)
    \/ \E u \in Users, j \in 1..MaxPosts : SwipeSettle(u, j)
    \/ \E u \in Users, t \in Tables, c \in Catalog : Remove(u, t, c)

Spec == Init /\ [][Next]_vars

\* ------------------------------------------- the Ranking Adapter taken alone
InitRank ==
    /\ PageInit
    /\ response \in ProviderResponses
    /\ ranking = NoRanking
    /\ AuthInit
    /\ SlidesInit
    /\ MountInit
    /\ WizardInit

\* rank(userId) returns for the response that arrived
Rank ==
    /\ ranking = NoRanking
    /\ ranking' = rank(response)
    /\ UNCHANGED <<response, vars, authVars, slideVars, mountVars, wizardVars>>

NextRank == Rank

SpecRank == InitRank /\ [][NextRank]_<<vars, rankVars>>

\* ------------------------------------------------- the router and AuthGuard
\* what the router and AuthGuard leave alone
notAuth == <<vars, rankVars, slideVars, mountVars, wizardVars>>

\* the route of tab t changes to path: a guard is mounted when the new route is
\* wrapped (useState(null)); the router renders the guard of the old route on
\* when both routes are wrapped, so its state stays
Arrive(t, path) ==
    /\ loc' = [loc EXCEPT ![t] = path]
    /\ isAuthenticated' = [isAuthenticated EXCEPT ![t] =
           IF path \notin Wrapped THEN "unmounted"
           ELSE IF loc[t] \in Wrapped THEN @ ELSE "null"]

\* a Link is clicked or a URL is entered
Go(t, path) ==
    /\ Arrive(t, path)
    /\ UNCHANGED <<token, notAuth>>

\* AuthGuard's effect after mount: no token -> navigate('/'), else
\* setIsAuthenticated(true)
GuardEffect(t) ==
    /\ isAuthenticated[t] = "null"
    /\ IF ~token THEN Arrive(t, "/")
       ELSE /\ isAuthenticated' = [isAuthenticated EXCEPT ![t] = "true"]
            /\ UNCHANGED loc
    /\ UNCHANGED <<token, notAuth>>

\* SignIn.handleSubmit succeeds: setItem('token'), navigate('/')
SignIn(t) ==
    /\ loc[t] = "/"
    /\ token' = TRUE
    /\ Arrive(t, "/")
    /\ UNCHANGED notAuth

\* SignUp's submit succeeds: setItem('token'), navigate('/profile')
SignUp(t) ==
    /\ loc[t] = "/signup"
    /\ token' = TRUE
    /\ Arrive(t, "/profile")
    /\ UNCHANGED notAuth

\* Topbar.handleLogout: removeItem('token'), navigate('/')
Logout(t) ==
    /\ token
    /\ token' = FALSE
    /\ Arrive(t, "/")
    /\ UNCHANGED notAuth

NextAuth ==
    \/ \E t \in Tabs, path \in Paths : Go(t, path)
    \/ \E t \in Tabs : GuardEffect(t)
    \/ \E t \in Tabs : SignIn(t)
    \/ \E t \in Tabs : SignUp(t)
    \/ \E t \in Tabs : Logout(t)

SpecAuth == Init /\ [][NextAuth]_authVars

\* ------------------------------------------- the slides of the discover page
\* what the slides page leaves alone
notSlides == <<vars, rankVars, authVars, mountVars, wizardVars>>

\* Slides: Math.max(0, index - 1)
prev(i) == IF i - 1 > 0 THEN i - 1 ELSE 0

nextUnclamped(i) == i + 1

\* Slides: Math.min(slides.length - 1, index + 1)
next(i) == IF i + 1 < Last THEN i + 1 ELSE Last

\* Slides: index >= slides.length - 1
atEnd == slideIndex >= Last

\* a Slides component is rendered: 'error' is null and 'uni' is not
Mounted == shown # NoCand /\ ~failed

LoadedIndexKept(i) == i

\* loadRec: setSlideIndex(0)
LoadedIndex(i) == 0

\* onIndex(n) = setSlideIndex(n), by gesture g
onIndex(n, g) ==
    /\ slideIndex' = n
    /\ seenEnd' = (seenEnd \/ n >= Last)
    /\ gesture' = g
    /\ before' = slideIndex

\* the Back button, disabled={index === 0}
BackButton ==
    /\ Mounted
    /\ slideIndex # 0
    /\ onIndex(prev(slideIndex), "back")
    /\ UNCHANGED <<keyIndex, shown, failed, touchX, loads, pending, notSlides>>

\* the Next button, disabled={atEnd}
NextButton ==
    /\ Mounted
    /\ ~atEnd
    /\ onIndex(next(slideIndex), "next")
    /\ UNCHANGED <<keyIndex, shown, failed, touchX, loads, pending, notSlides>>

\* a dot: onClick={() => onIndex(i)}
Dot(i) ==
    /\ Mounted
    /\ onIndex(i, "dot")
    /\ UNCHANGED <<keyIndex, shown, failed, touchX, loads, pending, notSlides>>

\* onTouchStart: setTouchX(clientX)
TouchStart ==
    /\ Mounted
    /\ ~touchX
    /\ touchX' = TRUE
    /\ UNCHANGED <<slideIndex, keyIndex, shown, failed, loads, pending, seenEnd,
                   gesture, before, notSlides>>

\* onTouchEnd: dx > 40 -> prev(), dx < -40 -> next(), then setTouchX(null)
TouchEnd(dx) ==
    /\ Mounted
    /\ touchX
    /\ touchX' = FALSE
    /\ IF dx > 40 THEN onIndex(prev(slideIndex), "swipeBack")
       ELSE IF dx < 0 - 40 THEN onIndex(next(slideIndex), "swipeNext")
            ELSE UNCHANGED <<slideIndex, seenEnd, gesture, before>>
    /\ UNCHANGED <<keyIndex, shown, failed, loads, pending, notSlides>>

\* keydown: the handler registered by the effect with deps [] calls the next
\* and prev of the render in which Slides was mounted
KeyDown(key) ==
    /\ Mounted
    /\ IF key = "ArrowRight" THEN onIndex(next(keyIndex), "right")
       ELSE onIndex(prev(keyIndex), "left")
    /\ UNCHANGED <<keyIndex, shown, failed, touchX, loads, pending, notSlides>>

\* a SwipeButton of the footer is clicked: rendered only when atEnd
JudgeClick ==
    /\ Mounted
    /\ atEnd
    /\ pending < MaxPending
    /\ pending' = pending + 1
    /\ UNCHANGED <<slideIndex, keyIndex, shown, failed, touchX, loads, seenEnd,
                   gesture, before, notSlides>>

\* the request of a SwipeButton settles: when fetch resolved, onDone() starts
\* a loadRec, whose first statement is setError(null); the slides of the
\* candidate still held in 'uni' come back if the error view was up
JudgeDone(resolved) ==
    /\ pending > 0
    /\ pending' = pending - 1
    /\ IF resolved
       THEN /\ loads < MaxLoads
            /\ loads' = loads + 1
            /\ failed' = FALSE
            /\ keyIndex' = IF failed /\ shown # NoCand THEN slideIndex ELSE keyIndex
       ELSE UNCHANGED <<loads, failed, keyIndex>>
    /\ UNCHANGED <<slideIndex, shown, touchX, seenEnd, gesture, before, notSlides>>

\* loadRec: setUni(picked); setSlideIndex(0) -- one render (createRoot batches)
LoadShow(c) ==
    /\ loads > 0
    /\ loads' = loads - 1
    /\ shown' = c
    /\ slideIndex' = LoadedIndex(slideIndex)
    /\ seenEnd' = FALSE
    /\ gesture' = "load"
    /\ before' = slideIndex
    /\ keyIndex' = IF failed THEN NoIndex
                   ELSE IF shown = NoCand THEN LoadedIndex(slideIndex)
                        ELSE keyIndex
    /\ UNCHANGED <<failed, touchX, pending, notSlides>>

\* loadRec: catch (e) { setError(e.message) } -- the error view replaces Slides
LoadFail ==
    /\ loads > 0
    /\ loads' = loads - 1
    /\ failed' = TRUE
    /\ keyIndex' = NoIndex
    /\ touchX' = FALSE
    /\ UNCHANGED <<slideIndex, shown, pending, seenEnd, gesture, before, notSlides>>

NextSlides ==
    \/ BackButton
    \/ NextButton
    \/ \E i \in 0..Last : Dot(i)
    \/ TouchStart
    \/ \E dx \in {0 - 41, 0, 41} : TouchEnd(dx)
    \/ \E key \in {"ArrowLeft", "ArrowRight"} : KeyDown(key)
    \/ JudgeClick
    \/ \E resolved \in BOOLEAN : JudgeDone(resolved)
    \/ \E c \in Catalog : LoadShow(c)
    \/ LoadFail

SpecSlides == Init /\ [][NextSlides]_slideVars

\* ------------------------------------ the initial request of the discover page
\* what the mount effects leave alone
notMount == <<vars, rankVars, authVars, slideVars, wizardVars>>

SameUidNever(ref, id) == FALSE

\* lastUidRef effect: lastUidRef.current === me.user_id
SameUid(ref, id) == ref = id

\* the lastUidRef effect runs with me?.user_id = id:
\*   if (!me?.user_id) return; if (lastUidRef.current === me.user_id) return;
\*   lastUidRef.current = me.user_id; loadRec(me.user_id)
UidEffect(id) ==
    IF id = None \/ SameUid(lastUidRef, id)
    THEN UNCHANGED <<lastUidRef, issued>>
    ELSE /\ lastUidRef' = id
         /\ issued' = [issued EXCEPT ![id] = @ + 1]

\* the hasFetched effect runs:
\*   if (hasFetched.current) return; hasFetched.current = true; loadRandom()
FetchedEffect ==
    IF hasFetched THEN UNCHANGED <<hasFetched, randomIssued>>
    ELSE /\ hasFetched' = TRUE
         /\ randomIssued' = randomIssued + 1

\* the effects of the recommendations page run after mount, and once more
\* under StrictMode (state and refs are kept): fetch('/api/me') with the
\* stored token of user u, the lastUidRef effect with the 'me' of that moment;
\* with no token stored (u = None) the first effect returns before the fetch
MountEffects(u) ==
    /\ passes < StrictPasses
    /\ passes' = passes + 1
    /\ meRequests' = IF u = None THEN meRequests ELSE Append(meRequests, u)
    /\ UidEffect(meId)
    /\ UNCHANGED <<meId, hasFetched, randomPasses, reruns, randomIssued, notMount>>

\* the same for the page that loads at random: the hasFetched effect
RandomMountEffects ==
    /\ randomPasses < StrictPasses
    /\ randomPasses' = randomPasses + 1
    /\ FetchedEffect
    /\ UNCHANGED <<meId, lastUidRef, meRequests, passes, reruns, issued, notMount>>

\* GET /api/me is answered: .then(setMe); the lastUidRef effect runs when
\* me?.user_id has changed. An error body has no user_id.
MeAnswer(j, ok) ==
    /\ j \in DOMAIN meRequests
    /\ meRequests' = RemoveAt(meRequests, j)
    /\ meId' = IF ok THEN meRequests[j] ELSE None
    /\ IF meId' # meId THEN UidEffect(meId')
       ELSE UNCHANGED <<lastUidRef, issued>>
    /\ UNCHANGED <<hasFetched, passes, randomPasses, reruns, randomIssued, notMount>>

\* the guarded effects run once more with nothing changed
EffectsAgain ==
    /\ passes > 0
    /\ randomPasses > 0
    /\ reruns < MaxReruns
    /\ reruns' = reruns + 1
    /\ UidEffect(meId)
    /\ FetchedEffect
    /\ UNCHANGED <<meId, meRequests, passes, randomPasses, notMount>>

NextMount ==
    \/ \E u \in Users \cup {None} : MountEffects(u)
    \/ RandomMountEffects
    \/ \E j \in 1..StrictPasses, ok \in BOOLEAN : MeAnswer(j, ok)
    \/ EffectsAgain

SpecMount == Init /\ [][NextMount]_mountVars

\* ---- the sign-up wizard (SignUp) ----

notWizard == <<vars, rankVars, authVars, slideVars, mountVars>>

\* steps.length - 1: account, about, sat_erw, sat_math, act
LastStep == 4

\* what the user can type into the text inputs
Emails ==
    {<<>>, <<Blank>>, <<"a", "@", "b">>, <<"a", "@", "b", ".", "c">>}

Passwords == {<<>>, <<"p", "p", "p", "p", "p">>, <<"p", "p", "p", "p", "p", "p">>}

ScoreTexts ==
    {<<>>, <<Blank>>, <<"x">>, <<"3", "6">>, <<"2", "0", "0">>,
     <<"8", "0", "1">>}

FieldValues ==
    [email |-> Emails, password |-> Passwords, satErw |-> ScoreTexts,
     satMath |-> ScoreTexts, act |-> ScoreTexts]

RECURSIVE TrimLeft(_)
TrimLeft(s) ==
    IF s # <<>> /\ Head(s) = Blank THEN TrimLeft(Tail(s)) ELSE s

RECURSIVE TrimRight(_)
TrimRight(s) ==
    IF s # <<>> /\ s[Len(s)] = Blank
    THEN TrimRight(SubSeq(s, 1, Len(s) - 1))
    ELSE s

\* String.prototype.trim
trim(s) == TrimRight(TrimLeft(s))

IsDigit(ch) == \E d \in DOMAIN Digits : Digits[d] = ch

DigitValue(ch) == (CHOOSE d \in DOMAIN Digits : Digits[d] = ch) - 1

RECURSIVE Decimal(_)
Decimal(s) ==
    IF s = <<>>
    THEN 0
    ELSE 10 * Decimal(SubSeq(s, 1, Len(s) - 1)) + DigitValue(s[Len(s)])

NaN == [null |-> FALSE, finite |-> FALSE, value |-> 0]

\* Number(text) of a text of digits, blanks and letters: blanks around are
\* dropped, the empty text is 0, anything with a non-digit left is NaN
Number(s) ==
    LET t == trim(s)
    IN  IF \A i \in DOMAIN t : IsDigit(t[i])
        THEN [null |-> FALSE, finite |-> TRUE, value |-> Decimal(t)]
        ELSE NaN

\* [^\s@]+ over s[a..b]
Plain(s, a, b) ==
    /\ a <= b
    /\ \A i \in a..b : s[i] # "@" /\ s[i] # Blank

\* /^[^\s@]+@[^\s@]+\.[^\s@]+$/.test(s)
EmailShape(s) ==
    \E p, q \in DOMAIN s :
        /\ p < q
        /\ s[p] = "@"
        /\ s[q] = "."
        /\ Plain(s, 1, p - 1)
        /\ Plain(s, p + 1, q - 1)
        /\ Plain(s, q + 1, Len(s))

\* !Number.isFinite(v) || v < lo || v > hi
OutOfRange(text, lo, hi) ==
    LET v == Number(text)
    IN  \/ ~v.finite
        \/ v.value < lo
        \/ v.value > hi

validateStepNone(s, f) == None

validateStep(s, f) ==
    IF s = 0 /\ trim(f.email) = <<>> THEN "Email is required"
    ELSE IF s = 0 /\ ~EmailShape(f.email) THEN "Enter a valid email"
    ELSE IF s = 0 /\ (f.password = <<>> \/ Len(f.password) < 6)
        THEN "Password must be at least 6 characters"
    ELSE IF s = 2 /\ trim(f.satErw) # <<>> /\ OutOfRange(f.satErw, 200, 800)
        THEN "SAT ERW must be between 200 and 800"
    ELSE IF s = 3 /\ trim(f.satMath) # <<>> /\ OutOfRange(f.satMath, 200, 800)
        THEN "SAT Math must be between 200 and 800"
    ELSE IF s = 4 /\ trim(f.act) # <<>> /\ OutOfRange(f.act, 1, 36)
        THEN "ACT must be between 1 and 36"
    ELSE None

\* text ? Number(text) : null, as JSON.stringify writes it (NaN becomes null)
JsonScore(text) ==
    IF text = <<>>
    THEN Null
    ELSE LET v == Number(text)
         IN  IF v.finite THEN [null |-> FALSE, value |-> v.value] ELSE Null

\* the body of POST /api/auth/signup (gender, state and race are not modelled:
\* nothing reads them but the payload)
Payload(f) ==
    [sent |-> TRUE, email |-> f.email, password |-> f.password,
     sat_erw |-> JsonScore(f.satErw), sat_math |-> JsonScore(f.satMath),
     act_composite |-> JsonScore(f.act)]

\* submit() up to the await of fetch
submit ==
    /\ signupError' = None
    /\ signupLoading' = TRUE
    /\ request' = Payload(form)
    /\ UNCHANGED <<step, form, navigated>>

\* handleChange; every input is in the document at every step. An edit made
\* while the request is in flight is taken after the response: the body was
\* built before the fetch, and the response handler does not read the form
Change(name, value) ==
    /\ ~navigated
    /\ ~signupLoading
    /\ value # form[name]
    /\ form' = [form EXCEPT ![name] = value]
    /\ UNCHANGED <<step, signupError, signupLoading, request, navigated>>
    /\ UNCHANGED notWizard

\* next(), from the primary button (disabled={loading})
NextClick ==
    /\ ~navigated
    /\ ~signupLoading
    /\ LET err == validateStep(step, form)
       IN  IF err # None
           THEN /\ signupError' = err
                /\ UNCHANGED <<step, form, signupLoading, request, navigated>>
           ELSE IF step < LastStep
           THEN /\ signupError' = None
                /\ step' = step + 1
                /\ UNCHANGED <<form, signupLoading, request, navigated>>
           ELSE submit
    /\ UNCHANGED notWizard

\* back(), from the Back button (disabled={step === 0 || loading})
BackClick ==
    /\ ~navigated
    /\ step # 0
    /\ ~signupLoading
    /\ signupError' = None
    /\ step' = IF step - 1 > 0 THEN step - 1 ELSE 0
    /\ UNCHANGED <<form, signupLoading, request, navigated>>
    /\ UNCHANGED notWizard

\* skip(), from the Skip button (rendered when step > 0, disabled={loading})
SkipClick ==
    /\ ~navigated
    /\ step > 0
    /\ step < LastStep + 1
    /\ ~signupLoading
    /\ IF step = 0
       THEN UNCHANGED wizardVars
       ELSE IF step < LastStep
       THEN /\ signupError' = None
            /\ step' = step + 1
            /\ UNCHANGED <<form, signupLoading, request, navigated>>
       ELSE submit
    /\ UNCHANGED notWizard

\* the fetch of submit() settles: a 2xx stores the token and navigates to
\* /profile, anything else sets the error; finally setLoading(false)
SignupResponse(ok) ==
    /\ ~navigated
    /\ request.sent
    /\ request' = NoRequest
    /\ signupLoading' = FALSE
    /\ IF ok
       THEN navigated' = TRUE /\ UNCHANGED signupError
       ELSE signupError' = "Sign-up failed" /\ UNCHANGED navigated
    /\ UNCHANGED <<step, form>>
    /\ UNCHANGED notWizard

NextWizard ==
    \/ \E name \in DOMAIN FieldValues :
           \E value \in FieldValues[name] : Change(name, value)
    \/ NextClick
    \/ BackClick
    \/ SkipClick
    \/ \E ok \in BOOLEAN : SignupResponse(ok)

SpecWizard == Init /\ [][NextWizard]_wizardVars

\* ======================================================= properties
\* invocation i of loadRec for u completes in this step
Ends(u, i) ==
    /\ i \in DOMAIN calls[u]
    /\ calls[u][i].pc \in {"recResp", "randResp"}
    /\ calls'[u] = Complete(calls[u], i)

\* ... and hands a candidate to the page
ReturnsCandidate(u, i) == Ends(u, i) /\ result'[u] = "Candidate"

\* the entry of seq at the least index whose id is not in ex, NoCand if none
FirstSurviving(seq, ex) ==
    IF \E k \in DOMAIN seq : seq[k] \notin ex
    THEN seq[CHOOSE k \in DOMAIN seq :
                 /\ seq[k] \notin ex
                 /\ \A m \in DOMAIN seq : seq[m] \notin ex => k <= m]
    ELSE NoCand

\* the fallback request of the invocation was answered with a candidate
\* (no store or transport failure on the fallback path)
FallbackAnswered(c) == c.pc = "randResp" => c.resp = "json"

\* C1: a candidate returned by next(U) is not in U's Exclusion Set at the
\* time of its selection, on the ranked path and on the random-fallback path
C1_NeverReturnsExcluded ==
    [][\A u \in Users, i \in 1..MaxCalls :
         ReturnsCandidate(u, i) => uni'[u] \notin calls[u][i].exSel]_vars

\* C2: when the ranking call ends as Unavailable, next(U) does not end at the
\* ranking stage: it goes on to the Fallback Sampler
C2_UnavailableFallsBack ==
    [][\A u \in Users, i \in 1..MaxCalls :
         Ends(u, i) /\ calls[u][i].outcome = "Unavailable"
           => calls[u][i].pc = "randResp"]_vars

\* C3: when the outcome is Ranked and an entry of the ranked sequence is not
\* in excludedSet(U), next(U) returns the first such entry, from the ranked
\* path
C3_RankedFirstSurviving ==
    [][\A u \in Users, i \in 1..MaxCalls :
         LET c == calls[u][i]
         IN  (/\ Ends(u, i)
              /\ c.outcome = "Ranked"
              /\ FirstSurviving(c.ranked, c.ex) # NoCand)
             => /\ c.pc = "recResp"
                /\ result'[u] = "Candidate"
                /\ uni'[u] = FirstSurviving(c.ranked, c.ex)]_vars

\* the ranked sequence [1, 2] met the exclusion set {1}: entry 2 is on its way
C3_Witness ==
    \E u \in Users, i \in 1..MaxCalls :
        /\ i \in DOMAIN calls[u]
        /\ calls[u][i].pc = "recResp"
        /\ calls[u][i].outcome = "Ranked"
        /\ calls[u][i].ranked = <<1, 2>>
        /\ calls[u][i].ex = {1}
        /\ calls[u][i].items = <<2>>

\* C4: a ranked list made only of excluded ids, or Empty, gives a candidate of
\* the Fallback Sampler (unjudged), or NoneLeft when nothing is unjudged
C4_AllExcludedFallsBack ==
    [][\A u \in Users, i \in 1..MaxCalls :
         LET c == calls[u][i]
         IN  (/\ Ends(u, i)
              /\ c.outcome \in {"Ranked", "Empty"}
              /\ FirstSurviving(c.ranked, c.ex) = NoCand
              /\ FallbackAnswered(c))
             => IF Catalog \subseteq c.exSel
                THEN result'[u] = "NoneLeft"
                ELSE /\ result'[u] = "Candidate"
                     /\ uni'[u] \in Catalog \ c.exSel]_vars

\* C5: a user who has judged the whole catalog gets NoneLeft from next(U),
\* whatever the ranking outcome
C5_ExhaustedGivesNoneLeft ==
    [][\A u \in Users, i \in 1..MaxCalls :
         LET c == calls[u][i]
         IN  (/\ Ends(u, i)
              /\ c.outcome # "LedgerFail"
              /\ c.ex = Catalog
              /\ c.exSel = Catalog
              /\ FallbackAnswered(c))
             => result'[u] = "NoneLeft"]_vars

\* C6: while an unjudged candidate exists and the ledger read succeeded,
\* next(U) returns a catalog candidate that is unjudged, for every ranking
\* outcome; NoneLeft is returned only when the whole catalog is judged
C6_ForwardProgress ==
    [][\A u \in Users, i \in 1..MaxCalls :
         LET c == calls[u][i]
         IN  /\ (/\ Ends(u, i)
                 /\ c.outcome # "LedgerFail"
                 /\ Catalog \ c.exSel # {}
                 /\ FallbackAnswered(c))
                => /\ result'[u] = "Candidate"
                   /\ uni'[u] \in Catalog \ c.exSel
             /\ (Ends(u, i) /\ result'[u] = "NoneLeft")
                => Catalog \subseteq c.exSel]_vars

\* the write of request j of u is applied by the store in this step
Applies(u, j) ==
    /\ j \in DOMAIN posts[u]
    /\ posts[u][j].st = "sent"
    /\ Len(posts'[u]) = Len(posts[u])
    /\ posts'[u][j].st # "sent"
    /\ Len(applied'[u][posts[u][j].unitid]) > Len(applied[u][posts[u][j].unitid])

\* C7: record(U, C, p) applied again on top of record(U, C, p) leaves the
\* judgments, hence the Exclusion Set, as they were after the first
C7_RecordIdempotent ==
    [][\A u \in Users, j \in 1..MaxPosts :
         LET p == posts[u][j]
         IN  (/\ Applies(u, j)
              /\ applied[u][p.unitid] # <<>>
              /\ applied[u][p.unitid][Len(applied[u][p.unitid])] = p.kind)
             => /\ judgments' = judgments
                /\ {c \in Catalog : judgments'[u][c] # <<>>} = ExcludedSet(u)]_vars

\* the same polarity has been recorded twice in a row for one pair
C7_Witness ==
    \E u \in Users, c \in Catalog :
        /\ Len(applied[u][c]) >= 2
        /\ applied[u][c][Len(applied[u][c])] = applied[u][c][Len(applied[u][c]) - 1]
        /\ judgments[u][c] = <<applied[u][c][1]>>

\* C8: at most one judgment per (user, candidate) in every state, and its
\* polarity is the one recorded last (like then dislike leaves dislike)
C8_OneJudgmentLastPolarity ==
    \A u \in Users, c \in Catalog :
        /\ Len(judgments[u][c]) <= 1
        /\ applied[u][c] # <<>>
             => judgments[u][c] = <<applied[u][c][Len(applied[u][c])]>>

\* like then dislike have been recorded for one pair
C8_Witness ==
    \E u \in Users, c \in Catalog :
        /\ applied[u][c] = <<"like", "dislike">>
        /\ judgments[u][c] = <<"dislike">>

\* a like and a dislike request of u for candidate c, both in flight together
\* and both applied and acknowledged
BothApplied(u, c) ==
    \E j1, j2 \in DOMAIN posts[u] :
        /\ posts[u][j1].unitid = c /\ posts[u][j2].unitid = c
        /\ posts[u][j1].kind = "like" /\ posts[u][j2].kind = "dislike"
        /\ posts[u][j1].st = "ok" /\ posts[u][j2].st = "ok"

\* C9: after two concurrent record calls of different polarity for one pair,
\* both writes have been applied (none is lost), one judgment exists and its
\* polarity is that of the write applied last
C9_ConcurrentRecordsSerialize ==
    \A u \in Users, c \in Catalog :
        BothApplied(u, c) =>
            /\ Len(applied[u][c]) >= 2
            /\ {applied[u][c][k] : k \in DOMAIN applied[u][c]} = Kinds
            /\ judgments[u][c] = <<applied[u][c][Len(applied[u][c])]>>
            /\ c \in ExcludedSet(u)

\* the dislike was applied first, the like last, both are acknowledged
C9_Witness ==
    \E u \in Users, c \in Catalog :
        /\ BothApplied(u, c)
        /\ applied[u][c] = <<"dislike", "like">>

C11_LedgerFailureFails ==
    [][\A u \in Users, i \in 1..MaxCalls :
         Ends(u, i) /\ calls[u][i].outcome = "LedgerFail"
           => /\ calls[u][i].pc = "recResp"
              /\ result'[u] = "SelectionFailed"]_vars

\* the onClick handler of request j of u runs to its end in this step
Settles(u, j) ==
    /\ j \in DOMAIN posts[u]
    /\ posts[u][j].st # "sent"
    /\ posts'[u] = RemoveAt(posts[u], j)

\* C12: a record whose storage write failed is not treated as Ok: the handler
\* does not run its success continuation (onDone, the next loadRec) for it
C12_WriteFailureSurfaces ==
    [][\A u \in Users, j \in 1..MaxPosts :
         Settles(u, j) /\ posts[u][j].st = "err"
           => calls'[u] = calls[u]]_vars

\* a step of a next(U): a loadRec of u starts, moves on or completes
NextStep(u) ==
    \/ Len(calls'[u]) # Len(calls[u])
    \/ \E i \in DOMAIN calls[u] : calls'[u][i].pc # calls[u][i].pc

\* the profile page deletes the judgment of u for c in this step
Deletes(u, c) == removed'[u][c] = removed[u][c] + 1

\* C13 as stated: next(U) leaves the judgments and the Exclusion Ledger
\* unchanged, and a step that changes them is a Feedback Recorder write
C13_LedgerOnlyRecorderWrites ==
    [][/\ \A u \in Users : NextStep(u) => judgments' = judgments
       /\ judgments' # judgments
            => \E u \in Users, j \in 1..MaxPosts : Applies(u, j)]_vars

\* C13 amended: next(U) leaves the judgments and the Exclusion Ledger
\* unchanged whatever its result, and a step that changes them is a Feedback
\* Recorder write or a deletion by the profile page
C13_NextLeavesLedger ==
    [][/\ \A u \in Users : NextStep(u) =>
            /\ judgments' = judgments
            /\ \A v \in Users :
                 {c \in Catalog : judgments'[v][c] # <<>>} = ExcludedSet(v)
       /\ judgments' # judgments
            => \/ \E u \in Users, j \in 1..MaxPosts : Applies(u, j)
               \/ \E u \in Users, c \in Catalog : Deletes(u, c)]_vars

\* a judgment of u has been written and then deleted by the profile page, and
\* every next(U) issued since has handed over its candidate
C13_Witness ==
    \E u \in Users :
        /\ \E c \in Catalog : removed[u][c] > 0
        /\ calls[u] = <<>>
        /\ posts[u] = <<>>
        /\ result[u] = "Candidate"

\* everything the model keeps for user u
UserState(u) ==
    <<judgments[u], applied[u], me[u], uni[u], error[u], loading[u], calls[u],
      result[u], posts[u], removed[u]>>

\* the ledger is read for invocation i of loadRec of v in this step
ReadsLedger(v, i) ==
    /\ i \in DOMAIN calls[v]
    /\ calls[v][i].pc = "rec"
    /\ Len(calls'[v]) = Len(calls[v])
    /\ calls'[v][i].pc = "recResp"
    /\ calls'[v][i].outcome # "LedgerFail"

\* C14: operations of different users are independent: a step that changes
\* anything of user U (a record of U in particular) leaves the judgments, the
\* Exclusion Set and the running next() calls of every other user V as they
\* were, and a next(V) reads V's own Exclusion Set, whatever U has done
C14_UsersIndependent ==
    [][/\ \A u, v \in Users :
            (u # v /\ UserState(u)' # UserState(u)) =>
                /\ UserState(v)' = UserState(v)
                /\ {c \in Catalog : judgments'[v][c] # <<>>} = ExcludedSet(v)
       /\ \A v \in Users, i \in 1..MaxCalls :
            ReadsLedger(v, i) => calls'[v][i].ex = ExcludedSet(v)]_vars

\* the ledger has been read for a next() of one user while another user has a
\* judgment stored that the first has not
C14_Witness ==
    \E u, v \in Users, i \in 1..MaxCalls :
        /\ u # v
        /\ ExcludedSet(u) # {}
        /\ i \in DOMAIN calls[v]
        /\ calls[v][i].pc = "recResp"
        /\ calls[v][i].outcome = "Ranked"
        /\ calls[v][i].ex = {}

\* C15: in every state the Exclusion Set of U is exactly the set of candidates
\* for which a judgment of U exists: the candidates some record of U was
\* applied for and not deleted since, each with at least one stored row
C15_ExclusionSetIsJudged ==
    \A u \in Users :
        /\ ExcludedSet(u) = {c \in Catalog : applied[u][c] # <<>>}
        /\ \A c \in Catalog : c \in ExcludedSet(u) <=> Len(judgments[u][c]) >= 1

\* one candidate of u has been disliked, the other has no judgment
C15_Witness ==
    \E u \in Users, c \in Catalog :
        /\ applied[u][c] = <<"dislike">>
        /\ judgments[u][c] = <<"dislike">>
        /\ ExcludedSet(u) = {c}

\* the random request of invocation i of u is answered by the sampler in this
\* step (no store or transport failure)
Samples(u, i) ==
    /\ i \in DOMAIN calls[u]
    /\ calls[u][i].pc = "rand"
    /\ Len(calls'[u]) = Len(calls[u])
    /\ calls'[u][i].pc = "randResp"
    /\ calls'[u][i].resp \notin {"errobj", "neterr", "malformed"}

\* C16: the sampler asked on behalf of U answers NoneLeft exactly when the
\* catalog minus excludedSet(U) is empty, and otherwise with a candidate that
\* is in the catalog and not in excludedSet(U)
C16_SamplerContract ==
    [][\A u \in Users, i \in 1..MaxCalls :
         Samples(u, i) =>
            IF Catalog \ ExcludedSet(u) = {}
            THEN calls'[u][i].items = <<>>
            ELSE /\ calls'[u][i].items # <<>>
                 /\ calls'[u][i].items[1] \in Catalog \ ExcludedSet(u)]_vars

\* C17: when the profile page deletes the judgment of U for C, C is out of
\* excludedSet(U) as soon as the delete is done, and a ledger read made for a
\* next(U) after it, with no new record for C, does not contain C
C17_DeletionReflected ==
    [][/\ \A u \in Users, c \in Catalog :
            Deletes(u, c) =>
                /\ judgments'[u][c] = <<>>
                /\ judgments'[u][c] # judgments[u][c]
                /\ c \notin {d \in Catalog : judgments'[u][d] # <<>>}
       /\ \A u \in Users, i \in 1..MaxCalls, c \in Catalog :
            (ReadsLedger(u, i) /\ removed[u][c] > 0 /\ applied[u][c] = <<>>)
                => c \notin calls'[u][i].ex]_vars

\* candidate c, judged and then deleted by the profile page, is the first
\* surviving entry of a later ranking and on its way back to the page
C17_Witness ==
    \E u \in Users, i \in 1..MaxCalls, c \in Catalog :
        /\ removed[u][c] > 0
        /\ i \in DOMAIN calls[u]
        /\ calls[u][i].pc = "recResp"
        /\ calls[u][i].outcome = "Ranked"
        /\ c \notin calls[u][i].ex
        /\ calls[u][i].items = <<c>>

\* invocation i of loadRec of u resumes after the recommendations request
Resumes(u, i) ==
    /\ i \in DOMAIN calls[u]
    /\ calls[u][i].pc = "recResp"
    /\ \/ calls'[u] = Complete(calls[u], i)
       \/ Len(calls'[u]) = Len(calls[u]) /\ calls'[u][i].pc # "recResp"

\* C18: a provider response with a malformed or out-of-range score is
\* classified Unavailable by the adapter, and a request whose ranking outcome
\* is Unavailable and which the handler answers does not end at the ranking
\* stage: loadRec goes on with the random fallback request
C18_BadScoreFallsBack ==
    [][/\ \A p \in BadScoreResponses : rank(p).kind = "Unavailable"
       /\ \A u \in Users, i \in 1..MaxCalls :
            (/\ Resumes(u, i)
             /\ calls[u][i].outcome = "Unavailable"
             /\ calls[u][i].resp = "json")
                => /\ Len(calls'[u]) = Len(calls[u])
                   /\ calls'[u][i].pc = "rand"
                   /\ result'[u] = result[u]
                   /\ error'[u] = error[u]]_vars

\* after an Unavailable ranking outcome the random request is about to be sent
C18_Witness ==
    \E u \in Users, i \in 1..MaxCalls :
        /\ i \in DOMAIN calls[u]
        /\ calls[u][i].pc = "rand"
        /\ calls[u][i].outcome = "Unavailable"
        /\ calls[u][i].resp = "json"
        /\ ~error[u]

\* the two sequences hold the same pairs
SameEntries(s, t) ==
    /\ Len(s) = Len(t)
    /\ {s[k] : k \in DOMAIN s} = {t[k] : k \in DOMAIN t}

\* C19: the sequence of a Ranked outcome holds the pairs of the response by
\* descending score, pairs of equal score by ascending candidate id, and it is
\* the same for every order in which the provider sends the same pairs
C19_RankedOrder ==
    ranking.kind = "Ranked" =>
        /\ SameEntries(ranking.seq, response)
        /\ \A i, j \in DOMAIN ranking.seq :
             i < j => \/ ranking.seq[i].score > ranking.seq[j].score
                      \/ /\ ranking.seq[i].score = ranking.seq[j].score
                         /\ ranking.seq[i].id < ranking.seq[j].id
        /\ \A q \in ProviderResponses :
             SameEntries(q, response) => rank(q).seq = ranking.seq

\* two pairs of equal score arrived with the larger id first and were ranked
C19_Witness ==
    /\ ranking.kind = "Ranked"
    /\ Len(response) = 2
    /\ response[1].score = response[2].score
    /\ response[1].id > response[2].id
    /\ ranking.seq[1].id < ranking.seq[2].id

\* the routes the claim calls protected
Protected == {"/profile", "/account", "/search", "/analysis"}

\* tab t shows the content of the page of its route
PageShown(t) ==
    /\ loc[t] \in RoutedPaths
    /\ loc[t] \in Wrapped => isAuthenticated[t] = "true"

\* C20: at every protected route an AuthGuard is mounted; the page content is
\* shown only while a token is stored; a guard that finds no token navigates
\* to '/' without having shown the page
C20_ProtectedRoutesGuarded ==
    [][\A t \in Tabs :
         /\ loc[t] \in Protected =>
              /\ isAuthenticated[t] # "unmounted"
              /\ PageShown(t) => token
         /\ (isAuthenticated[t] = "null" /\ ~token /\ loc'[t] # loc[t])
              => loc'[t] = "/" /\ ~PageShown(t)]_authVars

\* C21: a like or dislike request is issued only from mounted slides whose
\* index is at the last slide, reached since the displayed candidate was
\* loaded; and a load that displays a candidate leaves the index at 0
C21_JudgeOnlyAtEnd ==
    [][/\ pending' = pending + 1 =>
            /\ Mounted
            /\ slideIndex = Last
            /\ seenEnd
       /\ gesture' = "load" => slideIndex' = 0]_slideVars

\* a request is in flight for a candidate whose slides were advanced to the
\* last one with the Next button
C21_Witness ==
    /\ pending > 0
    /\ Mounted
    /\ slideIndex = Last
    /\ gesture = "next"
    /\ before = Last - 1

\* C22: the initial candidate request is made at most once per user id (and
\* at most once by the page that loads at random), however often the mount
\* effects run and the user record is set again
C22_InitialRequestOnce ==
    /\ \A u \in Users : issued[u] <= 1
    /\ randomIssued <= 1

\* the effects have run twice and once more, /api/me has answered twice for
\* the same user, and the initial requests have been made
C22_Witness ==
    \E u \in Users :
        /\ passes = StrictPasses
        /\ randomPasses = StrictPasses
        /\ reruns > 0
        /\ meRequests = <<>>
        /\ meId = u
        /\ issued[u] = 1
        /\ randomIssued = 1

\* C23: the wizard's step stays within 0..4 under next, back and skip; the
\* account step (0) is left only forwards to step 1, with the error cleared,
\* by next on a non-empty, well-formed email and a password of 6 characters
\* or more (skip does nothing there); a sign-up request is sent only from the
\* last step.
C23_WizardSteps ==
    [][/\ step' \in 0..LastStep
       /\ (step = 0 /\ step' # 0) =>
              /\ step' = 1
              /\ signupError' = None
              /\ trim(form.email) # <<>>
              /\ EmailShape(form.email)
              /\ Len(form.password) >= 6
       /\ (~request.sent /\ request'.sent) => step = LastStep]_wizardVars

C23_Witness ==
    /\ request.sent
    /\ step = LastStep
    /\ EmailShape(request.email)
    /\ Len(request.password) >= 6

\* a score of the request body is absent or within lo..hi
ScoreWithin(v, lo, hi) == v.null \/ (v.value >= lo /\ v.value <= hi)

\* C24: no sign-up request carries an SAT ERW or SAT Math value outside
\* 200..800 or an ACT value outside 1..36.
C24_ScoresValidated ==
    request.sent =>
        /\ ScoreWithin(request.sat_erw, 200, 800)
        /\ ScoreWithin(request.sat_math, 200, 800)
        /\ ScoreWithin(request.act_composite, 1, 36)

\* C27: the slide index is always one of 0..slides.length-1, whatever Back,
\* Next, dot clicks, touch swipes and arrow keys were applied; going back
\* from the first slide and going on from the last slide leave it where it is.
C27_IndexInRange ==
    /\ slideIndex \in 0..Last
    /\ (gesture \in {"back", "swipeBack"} /\ before = 0) => slideIndex = 0
    /\ (gesture \in {"next", "swipeNext"} /\ before = Last) => slideIndex = Last

C27_Witness ==
    /\ Mounted
    /\ gesture = "swipeNext"
    /\ before = Last
    /\ slideIndex = Last

\* C28: an arrow key moves relative to the slide shown when it is pressed:
\* ArrowRight to min(i + 1, last), ArrowLeft to max(i - 1, 0).
C28_KeysRelative ==
    /\ gesture = "right" => slideIndex = next(before)
    /\ gesture = "left" => slideIndex = prev(before)

\* C25: for one displayed candidate at most one judgment request of a user is
\* in flight: no two pending like/dislike requests name the same candidate.
C25_OneJudgmentInFlight ==
    \A u \in Users :
        \A i, j \in DOMAIN posts[u] :
            (/\ i # j
             /\ posts[u][i].live
             /\ posts[u][j].live
             /\ posts[u][i].st = "sent"
             /\ posts[u][j].st = "sent")
                => posts[u][i].unitid # posts[u][j].unitid

\* C26: when two loadRec calls of a user overlap, a response of the call
\* issued earlier that arrives after the later call has completed does not
\* replace the candidate shown: the page keeps the result of the call issued
\* last.
C26_LateResponseDropped ==
    [][\A u \in Users :
           \A i \in DOMAIN calls[u] :
               (Ends(u, i) /\ calls[u][i].late) => uni'[u] = uni[u]]_vars
====
